---- MODULE Spec2Model ----
(***************************************************************************)
(* A model of the kastore C library (src/c/kastore.c): one kastore_t       *)
(* object, one file on disk, and the four API calls kastore_open,          *)
(* kastore_put, kastore_get and kastore_close, each translated from its    *)
(* code together with the helpers it calls.                                *)
(*                                                                         *)
(* Numbers.  size_t and uint64_t values are 64 bits wide (LP64, the        *)
(* __unix__ build).  A 64-bit value is a tuple of four 16-bit limbs, least *)
(* significant first, so that the wrap-around of the C arithmetic is       *)
(* computed exactly.  Counts that stay small (num_items, loop indices) are *)
(* plain naturals.                                                         *)
(*                                                                         *)
(* The file.  A file is a header block (absent in a file shorter than the  *)
(* header), a sequence of descriptor blocks and the bytes that follow      *)
(* them.  Header and descriptor blocks hold their decoded fields: the code *)
(* encodes them with memcpy of the native integers.                        *)
(***************************************************************************)
EXTENDS Integers, Sequences, FiniteSets, TLC

(* ------------------------------------------------------------------ *)
(* Constants of kastore.h                                              *)
(* ------------------------------------------------------------------ *)
KAS_HEADER_SIZE == 64
KAS_ITEM_DESCRIPTOR_SIZE == 64
KAS_ARRAY_ALIGN == 8
KAS_NUM_TYPES == 8
KAS_FILE_VERSION_MAJOR == 1
KAS_FILE_VERSION_MINOR == 0
KAS_READ == 1
KAS_WRITE == 2
KAS_NO_MMAP == 1

KAS_ERR_IO == "KAS_ERR_IO"
KAS_ERR_BAD_MODE == "KAS_ERR_BAD_MODE"
KAS_ERR_NO_MEMORY == "KAS_ERR_NO_MEMORY"
KAS_ERR_BAD_FILE_FORMAT == "KAS_ERR_BAD_FILE_FORMAT"
KAS_ERR_VERSION_TOO_OLD == "KAS_ERR_VERSION_TOO_OLD"
KAS_ERR_VERSION_TOO_NEW == "KAS_ERR_VERSION_TOO_NEW"
KAS_ERR_BAD_TYPE == "KAS_ERR_BAD_TYPE"
KAS_ERR_EMPTY_KEY == "KAS_ERR_EMPTY_KEY"
KAS_ERR_DUPLICATE_KEY == "KAS_ERR_DUPLICATE_KEY"
KAS_ERR_KEY_NOT_FOUND == "KAS_ERR_KEY_NOT_FOUND"
\* The return value 0 of every call that succeeds.
OK == "0"
\* Not a return value: the call dereferenced a null or uninitialised pointer
\* and the process died.
SIGSEGV == "SIGSEGV"

(* ------------------------------------------------------------------ *)
(* 64-bit unsigned arithmetic on four 16-bit limbs                     *)
(* ------------------------------------------------------------------ *)
LimbBase == 2^16

\* The 64-bit value of a natural below 2^31.
U64(n) == <<n % LimbBase, (n \div LimbBase) % LimbBase, 0, 0>>

\* a + b as [lo |-> the sum modulo 2^64, carry |-> the bit lost].
AddCarry(a, b) ==
    LET s1 == a[1] + b[1]
        s2 == a[2] + b[2] + (s1 \div LimbBase)
        s3 == a[3] + b[3] + (s2 \div LimbBase)
        s4 == a[4] + b[4] + (s3 \div LimbBase)
    IN  [lo |-> <<s1 % LimbBase, s2 % LimbBase, s3 % LimbBase, s4 % LimbBase>>,
         carry |-> s4 \div LimbBase]

\* a * w for a small factor w, as [lo |-> the product modulo 2^64,
\* carry |-> what is lost].
MulCarry(a, w) ==
    LET s1 == a[1] * w
        s2 == a[2] * w + (s1 \div LimbBase)
        s3 == a[3] * w + (s2 \div LimbBase)
        s4 == a[4] * w + (s3 \div LimbBase)
    IN  [lo |-> <<s1 % LimbBase, s2 % LimbBase, s3 % LimbBase, s4 % LimbBase>>,
         carry |-> s4 \div LimbBase]

\* The C operators + and * on uint64_t / size_t: the result modulo 2^64.
Add64(a, b) == AddCarry(a, b).lo
Mul64(a, w) == MulCarry(a, w).lo

\* a < b and a <= b on 64-bit values.
Lt64(a, b) ==
    \E i \in 1..4 : a[i] < b[i] /\ \A j \in (i+1)..4 : a[j] = b[j]
Le64(a, b) == a = b \/ Lt64(a, b)

\* offset % KAS_ARRAY_ALIGN: the alignment divides the limb base.
Mod64(a, m) == a[1] % m

\* Whether the value is below 2^31, and then its value as a natural.
Fits(a) == a[3] = 0 /\ a[4] = 0 /\ a[2] < 2^15
Nat64(a) == a[1] + a[2] * LimbBase

(* ------------------------------------------------------------------ *)
(* Types and items                                                     *)
(* ------------------------------------------------------------------ *)
type_size_map == <<1, 1, 4, 4, 8, 8, 4, 8>>
type_size(type) == type_size_map[type + 1]

\* Pointers: null, a heap block holding bytes, or an address in the read
\* buffer (the offset from its start).
NULL == [at |-> "null", v |-> <<>>]
Heap(bytes) == [at |-> "heap", v |-> bytes]
InBuf(off) == [at |-> "buf", v |-> off]

\* memset(item, 0, sizeof(*item)) / one element of calloc.
ZeroItem ==
    [type |-> 0, key |-> NULL, key_len |-> U64(0), array |-> NULL,
     array_len |-> U64(0), key_start |-> U64(0), array_start |-> U64(0)]

(* ------------------------------------------------------------------ *)
(* Files and the read buffer                                           *)
(* ------------------------------------------------------------------ *)
\* A file of length 0, as fopen(filename, "wb") leaves it.
EmptyFile == [hdr |-> <<>>, descs |-> <<>>, body |-> <<>>]

\* The length of a file in bytes (st_size).
FileLen(f) ==
    KAS_HEADER_SIZE * Len(f.hdr) + KAS_ITEM_DESCRIPTOR_SIZE * Len(f.descs)
        + Len(f.body)

\* No read buffer: self->read_buffer == NULL.
NoBuffer == [at |-> "null", data |-> EmptyFile]

\* The byte at offset off (a natural) of the read buffer of self.  Bytes of
\* the key and array region are the file's; a byte of the header or of a
\* descriptor, and a byte beyond the end of the buffer (an out-of-bounds
\* read), is fill, a value the caller of this operator chooses freely.
BufByte(self, off, fill) ==
    LET f == self.read_buffer.data
        base == KAS_HEADER_SIZE * Len(f.hdr)
                    + KAS_ITEM_DESCRIPTOR_SIZE * Len(f.descs)
    IN  IF /\ self.read_buffer.at # "null"
           /\ off >= base
           /\ off < base + Len(f.body)
           /\ Lt64(U64(off), self.file_size)
        THEN f.body[off - base + 1]
        ELSE fill

\* The i-th byte (from 0) behind pointer p.
PtrByte(self, p, i, fill) ==
    IF p.at = "heap"
    THEN IF i < Len(p.v) THEN p.v[i + 1] ELSE fill
    ELSE IF p.at = "buf" /\ Fits(Add64(p.v, U64(i)))
         THEN BufByte(self, Nat64(Add64(p.v, U64(i))), fill)
         ELSE fill

\* The n bytes behind pointer p, as a sequence.
PtrBytes(self, p, n, fill) == [i \in 1..n |-> PtrByte(self, p, i - 1, fill)]

\* memcmp(a, b, n): the sign of the first difference.
memcmp(self, a, b, n, fill) ==
    LET D == {i \in 0..(n - 1) :
                 PtrByte(self, a, i, fill) # PtrByte(self, b, i, fill)}
    IN  IF D = {} THEN 0
        ELSE LET i == CHOOSE x \in D : \A y \in D : x <= y
             IN  IF PtrByte(self, a, i, fill) < PtrByte(self, b, i, fill)
                 THEN -1 ELSE 1

\* Compare item keys lexicographically; the shorter key first on a tie.
compare_items(self, ia, ib, fill) ==
    LET len == IF Lt64(ia.key_len, ib.key_len) THEN ia.key_len ELSE ib.key_len
        ret == memcmp(self, ia.key, ib.key, Nat64(len), fill)
    IN  IF ret = 0
        THEN (IF Lt64(ib.key_len, ia.key_len) THEN 1 ELSE 0)
                 - (IF Lt64(ia.key_len, ib.key_len) THEN 1 ELSE 0)
        ELSE ret

\* The items that count: the first num_items of the table.
Live(self) ==
    [j \in 1..(IF self.num_items < Len(self.items) THEN self.num_items
               ELSE Len(self.items)) |-> self.items[j]]

\* The key of an item as a byte sequence.
ItemKey(s, it) == PtrBytes(s, it.key, Nat64(it.key_len), 0)

\* The keys of the items of a store.
StoredKeys(s) == {ItemKey(s, Live(s)[j]) : j \in 1..Len(Live(s))}

(* ------------------------------------------------------------------ *)
(* The packer                                                          *)
(* ------------------------------------------------------------------ *)
\* A packer that does not align: the offset as it stands.
AlignUpNot(offset) == offset

\* The array loop's rounding of offset up to the next multiple of
\* KAS_ARRAY_ALIGN.
AlignUp(offset) ==
    LET remainder == Mod64(offset, KAS_ARRAY_ALIGN)
    IN  IF remainder # 0
        THEN Add64(offset, U64(KAS_ARRAY_ALIGN - remainder))
        ELSE offset

\* HEADER_SIZE + num_items * DESCRIPTOR_SIZE, where both loops start.
FirstKeyOffset(num_items) ==
    Add64(U64(KAS_HEADER_SIZE), Mul64(U64(num_items), KAS_ITEM_DESCRIPTOR_SIZE))

\* The value of offset when the key loop reaches item j (from 1), and when
\* it has passed all n items (j = n + 1).
RECURSIVE KeyOffset(_, _)
KeyOffset(items, j) ==
    IF j = 1 THEN FirstKeyOffset(Len(items))
    ELSE Add64(KeyOffset(items, j - 1), items[j - 1].key_len)

\* The value of offset in the array loop after the rounding for item j, and
\* (j = n + 1, unrounded) after the last item.
RECURSIVE ArrayOffset(_, _)
ArrayOffset(items, j) ==
    LET before ==
            IF j = 1 THEN KeyOffset(items, Len(items) + 1)
            ELSE Add64(ArrayOffset(items, j - 1),
                       Mul64(items[j - 1].array_len, type_size(items[j - 1].type)))
    IN  IF j <= Len(items) THEN AlignUp(before) ELSE before

\* Compute the locations of the keys and arrays in the file.
kastore_pack_items(self) ==
    LET its == Live(self)
        packed == [j \in 1..Len(its) |->
                      [its[j] EXCEPT !.key_start = KeyOffset(its, j),
                                     !.array_start = ArrayOffset(its, j)]]
    IN  [self EXCEPT !.items = packed,
                     !.file_size = ArrayOffset(its, Len(its) + 1)]

(* ------------------------------------------------------------------ *)
(* The store                                                           *)
(* ------------------------------------------------------------------ *)
\* memset(self, 0, sizeof(*self)).
ZeroStore ==
    [mode |-> 0, flags |-> 0, filename |-> "NULL", file |-> "NULL",
     file_version |-> <<0, 0>>, num_items |-> 0, file_size |-> U64(0),
     items |-> <<>>, read_buffer |-> NoBuffer]

\* a & b for naturals.
RECURSIVE BitAnd(_, _)
BitAnd(a, b) ==
    IF a = 0 \/ b = 0 THEN 0
    ELSE (a % 2) * (b % 2) + 2 * BitAnd(a \div 2, b \div 2)

\* The C operator !.
LogicalNot(a) == IF a = 0 THEN 1 ELSE 0

(* ------------------------------------------------------------------ *)
(* The writer                                                          *)
(* ------------------------------------------------------------------ *)
\* A writer that does not sort: the items in insertion order.
qsortNot(self) == {Live(self)}

\* The orders qsort may leave the items in: every permutation that is
\* ascending under compare_items.  Keys that compare equal may come out in
\* either order.
qsort(self) ==
    LET its == Live(self)
        n == Len(its)
        perms == {f \in [1..n -> 1..n] : \A i, j \in 1..n : i # j => f[i] # f[j]}
    IN  {[j \in 1..n |-> its[f[j]]] : f \in
            {g \in perms : \A i, j \in 1..n :
                i < j => compare_items(self, its[g[i]], its[g[j]], 0) <= 0}}

\* The header block: magic, version, item count, file size.
kastore_write_header(self) ==
    [magic |-> TRUE,
     version_major |-> KAS_FILE_VERSION_MAJOR,
     version_minor |-> KAS_FILE_VERSION_MINOR,
     num_items |-> self.num_items,
     file_size |-> self.file_size]

\* The descriptor blocks, one per item, in the order of the table.
kastore_write_descriptors(self) ==
    [j \in 1..Len(Live(self)) |->
        [type |-> self.items[j].type % 256,
         key_start |-> self.items[j].key_start,
         key_len |-> self.items[j].key_len,
         array_start |-> self.items[j].array_start,
         array_len |-> self.items[j].array_len]]

\* The fwrite calls of the array loop for items j..n, each as the bytes it
\* is to write: the padding up to array_start when there is any, then the
\* array when it is not empty.  offset is the end of what precedes item j.
RECURSIVE ArrayWrites(_, _, _)
ArrayWrites(self, j, offset) ==
    IF j > Len(Live(self)) THEN <<>>
    ELSE LET it == self.items[j]
             padding == Nat64(it.array_start) - Nat64(offset)
             size == Nat64(Mul64(it.array_len, type_size(it.type)))
         IN  (IF padding > 0 THEN <<[i \in 1..padding |-> 0]>> ELSE <<>>)
             \o (IF size > 0 THEN <<PtrBytes(self, it.array, size, 0)>> ELSE <<>>)
             \o ArrayWrites(self, j + 1, Add64(it.array_start, U64(size)))

\* The fwrite calls of kastore_write_data in order: every key (also one of
\* length 0), then the array loop.
DataWrites(self) ==
    [j \in 1..Len(Live(self)) |->
        PtrBytes(self, self.items[j].key, Nat64(self.items[j].key_len), 0)]
    \o ArrayWrites(self, 1, KeyOffset(Live(self), Len(Live(self)) + 1))

RECURSIVE Concat(_)
Concat(blocks) ==
    IF blocks = <<>> THEN <<>> ELSE Head(blocks) \o Concat(Tail(blocks))

\* Write the keys and the arrays.  fwrite(ptr, size, 1, file) returns 1
\* when it wrote the block; it returns 0 for a block of size 0, and when
\* the stream fails (io_fails: the first call of this function does).
\* [ret, body |-> the bytes written].
fwrite_all(writes, io_fails) ==
    LET bad == {k \in 1..Len(writes) : Len(writes[k]) = 0 \/ (io_fails /\ k = 1)}
    IN  [ret |-> IF bad = {} THEN OK ELSE KAS_ERR_IO,
         body |-> Concat(SubSeq(writes, 1,
                     IF bad = {} THEN Len(writes)
                     ELSE (CHOOSE k \in bad : \A m \in bad : k <= m) - 1))]

\* kastore_write_data: the fwrite calls of the keys and the arrays.
kastore_write_data(self, io_fails) == fwrite_all(DataWrites(self), io_fails)

\* Sort, pack and emit.  sorted is the order qsort left; fail names the
\* function whose first fwrite fails ("none" for no failure).
\* [ret, file |-> what was written].
WrittenFile(s, data) ==
    [ret |-> data.ret,
     file |-> [hdr |-> <<kastore_write_header(s)>>,
               descs |-> kastore_write_descriptors(s),
               body |-> data.body]]

\* The writes of kastore_write_file on the packed store s: the header
\* first, then the descriptors and the data.
WritePacked(s, fail) ==
    IF fail = "header"
    THEN [ret |-> KAS_ERR_IO, file |-> EmptyFile]
    ELSE WrittenFile(s, kastore_write_data(s, fail = "data"))

\* kastore_write_file: qsort, kastore_pack_items, then the writes.
kastore_write_file(self, sorted, fail) ==
    WritePacked(kastore_pack_items([self EXCEPT !.items = sorted]), fail)

(* ------------------------------------------------------------------ *)
(* The reader                                                          *)
(* ------------------------------------------------------------------ *)
\* Read and check the header block.  The fread fails on a file shorter
\* than the header (end of file: a format error) and when the stream fails
\* (io_fails: an I/O error).  [ret, self].
kastore_read_header(self, file, io_fails) ==
    IF io_fails THEN [ret |-> KAS_ERR_IO, self |-> self]
    ELSE IF file.hdr = <<>> THEN [ret |-> KAS_ERR_BAD_FILE_FORMAT, self |-> self]
    ELSE LET header == file.hdr[1]
             s1 == [self EXCEPT !.file_version =
                       <<header.version_major, header.version_minor>>]
             s2 == [s1 EXCEPT !.num_items = header.num_items,
                              !.file_size = header.file_size]
         IN  IF ~header.magic
             THEN [ret |-> KAS_ERR_BAD_FILE_FORMAT, self |-> self]
             ELSE IF header.version_major < KAS_FILE_VERSION_MAJOR
             THEN [ret |-> KAS_ERR_VERSION_TOO_OLD, self |-> s1]
             ELSE IF header.version_major > KAS_FILE_VERSION_MAJOR
             THEN [ret |-> KAS_ERR_VERSION_TOO_NEW, self |-> s1]
             ELSE IF Lt64(s2.file_size, U64(KAS_HEADER_SIZE))
             THEN [ret |-> KAS_ERR_BAD_FILE_FORMAT, self |-> s2]
             ELSE [ret |-> OK, self |-> s2]

\* Map the file.  fail names the call that fails: "stat", "mmap" or none.
kastore_mmap_file(self, file, fail) ==
    IF fail = "stat" THEN [ret |-> KAS_ERR_IO, self |-> self]
    ELSE IF self.file_size # U64(FileLen(file))
    THEN [ret |-> KAS_ERR_BAD_FILE_FORMAT, self |-> self]
    ELSE IF fail = "mmap" THEN [ret |-> KAS_ERR_IO, self |-> self]
    ELSE [ret |-> OK,
          self |-> [self EXCEPT !.read_buffer = [at |-> "mmap", data |-> file]]]

\* Read the file into a heap buffer of file_size bytes.  fail names the
\* call that fails: "malloc", "fseek" or none; the fread fails when the file
\* holds fewer than file_size bytes.
kastore_read_file(self, file, fail) ==
    LET s == [self EXCEPT !.read_buffer = [at |-> "heap", data |-> file]]
    IN  IF fail = "malloc" THEN [ret |-> KAS_ERR_NO_MEMORY, self |-> self]
        ELSE IF fail = "fseek" THEN [ret |-> KAS_ERR_IO, self |-> s]
        ELSE IF Lt64(U64(FileLen(file)), self.file_size)
        THEN [ret |-> KAS_ERR_BAD_FILE_FORMAT, self |-> s]
        ELSE [ret |-> OK, self |-> s]

\* Descriptor j of the read buffer (zero bytes where the file holds none).
Descriptor(self, j) ==
    IF j <= Len(self.read_buffer.data.descs)
    THEN self.read_buffer.data.descs[j]
    ELSE [type |-> 0, key_start |-> U64(0), key_len |-> U64(0),
          array_start |-> U64(0), array_len |-> U64(0)]

\* The first loop's checks of one descriptor, each in uint64_t arithmetic,
\* in the order of the code.
TypeOk(d) == d.type < KAS_NUM_TYPES
KeyInBounds(self, d) ==
    ~Lt64(self.file_size, Add64(d.key_start, d.key_len))
ArrayInBounds(self, d) ==
    ~Lt64(self.file_size,
          Add64(d.array_start, Mul64(d.array_len, type_size(d.type))))

\* What one pass of the first loop leaves in item j: the fields assigned
\* before the first check that fails.
ParseItem(self, d, item) ==
    LET i1 == [item EXCEPT !.type = d.type]
        i2 == [i1 EXCEPT !.key_start = d.key_start, !.key_len = d.key_len,
                         !.key = InBuf(d.key_start)]
        i3 == [i2 EXCEPT !.array_start = d.array_start,
                         !.array_len = d.array_len,
                         !.array = InBuf(d.array_start)]
    IN  IF ~TypeOk(d) THEN [ret |-> KAS_ERR_BAD_TYPE, item |-> item]
        ELSE IF ~KeyInBounds(self, d)
        THEN [ret |-> KAS_ERR_BAD_FILE_FORMAT, item |-> i1]
        ELSE IF ~ArrayInBounds(self, d)
        THEN [ret |-> KAS_ERR_BAD_FILE_FORMAT, item |-> i2]
        ELSE [ret |-> OK, item |-> i3]

\* The first loop from item j on: parse until a check fails.
RECURSIVE ParseLoop(_, _, _)
ParseNext(self, j, items, r) ==
    IF r.ret # OK THEN [ret |-> r.ret, items |-> [items EXCEPT ![j] = r.item]]
    ELSE ParseLoop(self, j + 1, [items EXCEPT ![j] = r.item])

\* The first loop at item j.
ParseLoop(self, j, items) ==
    IF j > self.num_items THEN [ret |-> OK, items |-> items]
    ELSE ParseNext(self, j, items,
                   ParseItem(self, Descriptor(self, j), items[j]))

\* The second and third loop: every key_start and array_start is where the
\* packer's walk puts it.
PackingOk(items) ==
    /\ \A j \in 1..Len(items) : items[j].key_start = KeyOffset(items, j)
    /\ \A j \in 1..Len(items) : items[j].array_start = ArrayOffset(items, j)

\* Parse the descriptors into the zeroed item table and check them.
DescriptorsParsed(self, parsed) ==
    [ret |-> IF parsed.ret # OK THEN parsed.ret
             ELSE IF ~PackingOk(parsed.items) THEN KAS_ERR_BAD_FILE_FORMAT
             ELSE OK,
     self |-> [self EXCEPT !.items = parsed.items]]

\* kastore_read_descriptors: the file must hold the descriptors; then the
\* descriptor loop and the packing checks.
kastore_read_descriptors(self) ==
    IF Lt64(self.file_size, FirstKeyOffset(self.num_items))
    THEN [ret |-> KAS_ERR_BAD_FILE_FORMAT, self |-> self]
    ELSE DescriptorsParsed(self, ParseLoop(self, 1, self.items))

\* The gate of kastore_read, as written: (!self->flags) & KAS_NO_MMAP.
UseMmap(flags) == BitAnd(LogicalNot(flags), KAS_NO_MMAP) # 0

\* calloc(n, sizeof(kasitem_t)): a table of n zeroed items.
RECURSIVE calloc(_)
calloc(n) == IF n = 0 THEN <<>> ELSE Append(calloc(n - 1), ZeroItem)

\* Header, then the buffer (mapped or read), then the descriptors.  fail
\* names the one call that fails, "none" for none.
ReadItems(b, fail) ==
    IF b.ret # OK THEN b
    ELSE IF b.self.num_items > 0
    THEN IF fail = "calloc"
         THEN [ret |-> KAS_ERR_NO_MEMORY, self |-> b.self]
         ELSE kastore_read_descriptors(
                  [b.self EXCEPT !.items = calloc(b.self.num_items)])
    ELSE b

\* After the header h: the buffer, mapped or read as the gate decides.
ReadBuffer(h, file, fail) ==
    IF h.ret # OK THEN h
    ELSE ReadItems(IF UseMmap(h.self.flags)
                   THEN kastore_mmap_file(h.self, file, fail)
                   ELSE kastore_read_file(h.self, file, fail),
                   fail)

\* kastore_read.
kastore_read(self, file, fail) ==
    ReadBuffer(kastore_read_header(self, file, fail = "fread"), file, fail)

(* ------------------------------------------------------------------ *)
(* The API                                                             *)
(* ------------------------------------------------------------------ *)
\* The file on disk: absent, or a file.
NoFile == [exists |-> FALSE, file |-> EmptyFile]
OnDisk(f) == [exists |-> TRUE, file |-> f]

\* kastore_open.  fail names the one library call that fails ("none" for
\* none).  fopen(filename, "rb") also fails when there is no file;
\* fopen(filename, "wb") creates the file or truncates it to length 0.
\* [ret, self, disk].
OpenedRead(r, disk) == [ret |-> r.ret, self |-> r.self, disk |-> disk]

\* fopen on the store s with its mode, flags and filename set, and the
\* read of a store opened for reading.
OpenFile(s, disk, mode, fail) ==
    IF fail = "fopen" \/ (mode = "r" /\ ~disk.exists)
    THEN [ret |-> KAS_ERR_IO, self |-> s, disk |-> disk]
    ELSE IF mode = "r"
    THEN OpenedRead(kastore_read([s EXCEPT !.file = "FILE"], disk.file, fail),
                    disk)
    ELSE [ret |-> OK, self |-> [s EXCEPT !.file = "FILE"],
          disk |-> OnDisk(EmptyFile)]

\* kastore_open: the mode is checked first.
kastore_open(disk, mode, flags, fail) ==
    IF mode \notin {"r", "w"}
    THEN [ret |-> KAS_ERR_BAD_MODE, self |-> ZeroStore, disk |-> disk]
    ELSE OpenFile([ZeroStore EXCEPT
                      !.mode = IF mode = "r" THEN KAS_READ ELSE KAS_WRITE,
                      !.flags = flags, !.filename = "filename"],
                  disk, mode, fail)

\* What kastore_close does with the read buffer: munmap when the
\* KAS_NO_MMAP bit of flags is clear, free when it is set, and neither on a
\* null pointer.
ReleaseCall(self) ==
    IF self.read_buffer.at = "null" THEN "none"
    ELSE IF BitAnd(self.flags, KAS_NO_MMAP) = 0 THEN "munmap" ELSE "free"

\* A close that clears the store but for the mode.
ClosedStoreKeepsMode(self) == [ZeroStore EXCEPT !.mode = self.mode]

\* The store at the end of kastore_close.
ClosedStore(self) == ZeroStore

\* kastore_close.  sorted is the order qsort leaves the items in; fail
\* names the call that fails: the first fwrite of "header", "descriptors"
\* or "data", or "fclose" ("none" for none).  A write-mode store with an
\* open file is flushed; when the flush fails the file is closed at once.
\* A failing fclose of a written file loses what the stream had buffered.
\* [ret, self, disk, release |-> the call that releases the read buffer,
\* fclose |-> whether the file is closed, flushed |-> whether the file was
\* written and closed without error].
Flushes(self) == self.mode = KAS_WRITE /\ self.file # "NULL"

\* kastore_close after the flush w ([ret, file]): the releases, fclose
\* and memset.
CloseFlushed(self, disk, fail, w) ==
    LET err == w.ret = OK /\ self.file # "NULL" /\ fail = "fclose"
    IN  [ret |-> IF err THEN KAS_ERR_IO ELSE w.ret,
         self |-> ClosedStore(self),
         disk |-> IF ~Flushes(self) THEN disk
                  ELSE IF err THEN OnDisk(EmptyFile) ELSE OnDisk(w.file),
         release |-> ReleaseCall(self),
         fclose |-> self.file # "NULL",
         flushed |-> Flushes(self) /\ w.ret = OK /\ ~err]

\* kastore_close.
kastore_close(self, disk, sorted, fail) ==
    CloseFlushed(self, disk, fail,
                 IF Flushes(self) THEN kastore_write_file(self, sorted, fail)
                 ELSE [ret |-> OK, file |-> disk.file])

\* bsearch(&search, items, num_items, ..., compare_items): the index (from
\* 1) of the element found, 0 for NULL.  On a table in ascending order it is
\* an element that compares equal, if there is one; which one, among
\* several, the C library does not say.  On a table that is not in order
\* the search may also miss an element that is there.
Found(c) ==
    LET matches == {j \in 1..Len(c) : c[j] = 0}
        ordered == \A i, j \in 1..Len(c) : i < j => c[i] >= c[j]
    IN  IF matches = {} \/ ~ordered THEN matches \cup {0} ELSE matches

\* bsearch with compare_items over the first num_items items.
bsearch(self, search, fill) ==
    Found([j \in 1..Len(Live(self)) |->
              compare_items(self, search, self.items[j], fill)])

\* Whether the table has fewer elements than num_items says: the item
\* pointer is null, or the table was just grown by realloc over it.
TableShort(self) == self.num_items > Len(self.items)

\* A get that returns the first item whatever bsearch found.
kastore_getFirst(self, found, malloc_fails) ==
    IF malloc_fails \/ found = 0
    THEN [ret |-> IF malloc_fails THEN KAS_ERR_NO_MEMORY
                  ELSE KAS_ERR_KEY_NOT_FOUND,
          out |-> [array |-> NULL, array_len |-> U64(0), type |-> 0]]
    ELSE [ret |-> OK,
          out |-> [array |-> self.items[1].array,
                   array_len |-> self.items[1].array_len,
                   type |-> self.items[1].type]]

\* kastore_get with the item bsearch returned (index 0: NULL).  malloc_fails:
\* the copy of the key cannot be allocated.  [ret, array, array_len, type].
kastore_get(self, found, malloc_fails) ==
    LET none == [array |-> NULL, array_len |-> U64(0), type |-> 0]
    IN  IF malloc_fails THEN [ret |-> KAS_ERR_NO_MEMORY, out |-> none]
        ELSE IF found = 0 THEN [ret |-> KAS_ERR_KEY_NOT_FOUND, out |-> none]
        ELSE [ret |-> OK,
              out |-> [array |-> self.items[found].array,
                       array_len |-> self.items[found].array_len,
                       type |-> self.items[found].type]]

\* The item kastore_put builds in the new slot.
NewItem(key, array, array_len, type) ==
    [ZeroItem EXCEPT !.type = type, !.key = Heap(key), !.key_len = U64(Len(key)),
                     !.array = Heap(array), !.array_len = U64(array_len)]

\* A duplicate check whose loop stops one item early.
IsDuplicateShort(self, new_item, fill) ==
    \E j \in 1..(Len(Live(self)) - 1) :
        compare_items(self, new_item, self.items[j], fill) = 0

\* The duplicate check: the new item compares equal to an earlier one.
IsDuplicate(self, new_item, fill) ==
    \E j \in 1..Len(Live(self)) :
        compare_items(self, new_item, self.items[j], fill) = 0

\* The store after a put that fails at malloc(key_len): the table has been
\* grown and the new slot, zeroed but for its type, is counted.
AfterKeyMallocFails(self, type) ==
    [self EXCEPT !.items = Append(Live(self), [ZeroItem EXCEPT !.type = type]),
                 !.num_items = self.num_items + 1]

\* kastore_put on a table that holds its num_items items.  fail names the
\* allocation that fails: "realloc", "malloc" or none.  [ret, self].
kastore_put(self, key, array, array_len, type, fail, fill) ==
    LET new_item == NewItem(key, array, array_len, type)
    IN  IF type < 0 \/ type >= KAS_NUM_TYPES
        THEN [ret |-> KAS_ERR_BAD_TYPE, self |-> self]
        ELSE IF Len(key) = 0
        THEN [ret |-> KAS_ERR_EMPTY_KEY, self |-> self]
        ELSE IF fail = "realloc"
        THEN [ret |-> KAS_ERR_NO_MEMORY, self |-> self]
        ELSE IF fail = "malloc"
        THEN [ret |-> KAS_ERR_NO_MEMORY, self |-> AfterKeyMallocFails(self, type)]
        ELSE IF IsDuplicate(self, new_item, fill)
        THEN [ret |-> KAS_ERR_DUPLICATE_KEY, self |-> self]
        ELSE [ret |-> OK,
              self |-> [self EXCEPT !.items = Append(Live(self), new_item),
                                    !.num_items = self.num_items + 1]]

(* ------------------------------------------------------------------ *)
(* Inputs                                                              *)
(* ------------------------------------------------------------------ *)
\* The most items a store is filled with.
MaxItems == 2

\* Keys: one a prefix of another, and one that differs in the first byte.
Keys == {<<1>>, <<1, 2>>, <<2>>}
\* What put is called with (also the empty key) and get is called with
\* (also a key that is never stored).
PutKeys == Keys \cup {<<>>}
GetKeys == Keys \cup {<<3>>}

\* The arrays put is called with: a type, a length in elements and the
\* bytes of the elements.  One u8, no i64, one u32; and two bad types.
Payloads ==
    {[type |-> 0, array_len |-> 1, array |-> <<7>>],
     [type |-> 5, array_len |-> 0, array |-> <<>>],
     [type |-> 2, array_len |-> 1, array |-> <<9, 8, 9, 8>>],
     [type |-> 8, array_len |-> 1, array |-> <<7>>],
     [type |-> -1, array_len |-> 0, array |-> <<>>]}

\* The flags open is called with: one with the KAS_NO_MMAP bit clear that
\* is not 0.  The flags of a store opened for writing are not used.
FlagValues == {0, KAS_NO_MMAP, 2}
Modes == {"r", "w", "x"}
\* The values an unknown byte is given.
Fills == {0, 1}

OpenFails == {"none", "fopen", "fread", "stat", "mmap", "malloc", "fseek", "calloc"}
\* The calls of open: a read-mode open with every flags value and every
\* failure; a write-mode open, which meets no call but fopen; a bad mode.
OpenCalls ==
    {c \in [mode : Modes, flags : FlagValues, fail : OpenFails] :
        /\ c.mode = "w" => (c.flags = 0 /\ c.fail \in {"none", "fopen"})
        /\ c.mode = "x" => (c.flags = 0 /\ c.fail = "none")}
\* The calls of get: every key with every value of an unknown byte, and
\* one whose allocation fails.
GetCalls ==
    {c \in [key : GetKeys, malloc_fails : BOOLEAN, fill : Fills] :
        c.malloc_fails => (c.key = <<1>> /\ c.fill = 0)}
PutFails == {"none", "realloc", "malloc"}
CloseFails == {"none", "header", "data", "fclose"}

\* The calls of put: every key with every array of a known type; an
\* unknown type and the empty key once each; and an allocation that fails,
\* under every key.
U8Payload == [type |-> 0, array_len |-> 1, array |-> <<7>>]
PutCalls ==
    {c \in [key : PutKeys, p : Payloads, fail : PutFails] :
        /\ c.fail # "none" => c.p = U8Payload
        /\ c.p.type \notin 0..(KAS_NUM_TYPES - 1) =>
               (c.key = <<1>> /\ c.fail = "none")
        /\ c.key = <<>> => (c.p = U8Payload /\ c.fail = "none")}

\* Files this library did not write.  Each is a header, the descriptors it
\* counts and the bytes after them.
Hdr(n, size) ==
    [magic |-> TRUE, version_major |-> KAS_FILE_VERSION_MAJOR,
     version_minor |-> KAS_FILE_VERSION_MINOR, num_items |-> n,
     file_size |-> U64(size)]
Desc(type, key_start, key_len, array_start, array_len) ==
    [type |-> type, key_start |-> key_start, key_len |-> key_len,
     array_start |-> array_start, array_len |-> array_len]
\* One item: key "1" at 128, one i64 at 136, 144 bytes.
OneItemBody == <<1, 0, 0, 0, 0, 0, 0, 0, 5, 5, 5, 5, 5, 5, 5, 5>>
OneItem(d) == [hdr |-> <<Hdr(1, 144)>>, descs |-> <<d>>, body |-> OneItemBody]
\* Two u8 items: keys at 192 and 193, arrays at 200 and 208, 209 bytes.
TwoItems(k1, k2) ==
    [hdr |-> <<Hdr(2, 209)>>,
     descs |-> <<Desc(0, U64(192), U64(1), U64(200), U64(1)),
                 Desc(0, U64(193), U64(1), U64(208), U64(1))>>,
     body |-> <<k1, k2, 0, 0, 0, 0, 0, 0, 7, 0, 0, 0, 0, 0, 0, 0, 9>>]
\* 2^61 + 1 and 2^64 - 128.
Big61 == <<1, 0, 0, 2^13>>
BigNeg128 == <<2^16 - 128, 2^16 - 1, 2^16 - 1, 2^16 - 1>>
ForeignFiles ==
    {\* well formed
     OneItem(Desc(5, U64(128), U64(1), U64(136), U64(1))),
     \* array_len * 8 wraps to 8
     OneItem(Desc(5, U64(128), U64(1), U64(136), Big61)),
     \* key_start + key_len wraps to 0
     OneItem(Desc(5, U64(128), BigNeg128, U64(0), U64(0))),
     \* the array ends beyond file_size
     OneItem(Desc(5, U64(128), U64(1), U64(136), U64(2))),
     \* the key ends beyond file_size
     OneItem(Desc(5, U64(128), U64(200), U64(136), U64(1))),
     \* unknown type
     OneItem(Desc(8, U64(128), U64(1), U64(136), U64(1))),
     \* array not where the packer puts it
     OneItem(Desc(0, U64(128), U64(1), U64(137), U64(1))),
     \* key not where the packer puts it
     OneItem(Desc(5, U64(129), U64(1), U64(136), U64(1))),
     \* keys in descending order, and the same key twice
     TwoItems(2, 1), TwoItems(1, 1),
     \* bad magic, old and new major version, newer minor version
     [EmptyFile EXCEPT !.hdr = <<[Hdr(0, 64) EXCEPT !.magic = FALSE]>>],
     [EmptyFile EXCEPT !.hdr = <<[Hdr(0, 64) EXCEPT !.version_major = 0]>>],
     [EmptyFile EXCEPT !.hdr = <<[Hdr(0, 64) EXCEPT !.version_major = 2]>>],
     [EmptyFile EXCEPT !.hdr = <<[Hdr(0, 64) EXCEPT !.version_minor = 1]>>],
     \* file_size below the header size, more items than file_size holds
     [EmptyFile EXCEPT !.hdr = <<Hdr(0, 10)>>],
     [EmptyFile EXCEPT !.hdr = <<Hdr(1, 64)>>],
     \* a byte more than file_size, and no byte at all
     [EmptyFile EXCEPT !.hdr = <<Hdr(0, 64)>>, !.body = <<0>>],
     EmptyFile}

(* ------------------------------------------------------------------ *)
(* The state machine                                                   *)
(* ------------------------------------------------------------------ *)
VARIABLES
    self,    \* the kastore_t object
    disk,    \* the file the store is opened on
    last,    \* the last call: its name, return value and results
    phase,   \* where the caller stands: "Closed", "OpenRead", "OpenWrite",
             \* or "Failed" after an open that returned an error
    puts,    \* history: the puts that returned 0 since the store was opened
             \* for writing, and the key of the last put that returned
             \* KAS_ERR_DUPLICATE_KEY (<<>> when none did)
    golden   \* history: the puts the file on disk was flushed from

vars == <<self, disk, last, phase, puts, golden>>

NoPuts == [items |-> {}, dupkey |-> <<>>]
Unknown == [valid |-> FALSE, items |-> {}, dupkey |-> <<>>]

Init ==
    /\ self = ZeroStore
    /\ disk \in {NoFile} \cup {OnDisk(f) : f \in ForeignFiles}
    /\ last = [op |-> "init", ret |-> OK, out |-> <<>>]
    /\ phase = "Closed"
    /\ puts = NoPuts
    /\ golden = Unknown

\* A call is made by a live process.
Alive == last.ret # SIGSEGV

\* Whether the store holds pointers into a read buffer, so that a byte
\* read through them may be one the model leaves open.
ReadsBuffer(s) == s.read_buffer.at # "null"

\* The state after kastore_open returned r.
Opened(mode, fail, r) ==
    /\ self' = r.self
    /\ disk' = r.disk
    /\ last' = [op |-> "open", ret |-> r.ret, out |-> [fail |-> fail]]
    /\ phase' = IF r.ret # OK THEN "Failed"
                ELSE IF mode = "r" THEN "OpenRead" ELSE "OpenWrite"
    /\ puts' = NoPuts
    /\ golden' = IF r.disk = disk THEN golden ELSE Unknown

Open(mode, flags, fail) ==
    /\ Alive
    /\ Opened(mode, fail, kastore_open(disk, mode, flags, fail))

\* A put on a table shorter than num_items reads what realloc left in the
\* new memory: zero bytes (zeroed), or anything else, which ends the
\* process.
Grown(s) ==
    [s EXCEPT !.items =
        s.items \o [j \in 1..(s.num_items - Len(s.items)) |-> ZeroItem]]

\* The state after kastore_put returned r, or faulted (crash).
PutDone(key, p, fail, r, crash) ==
    /\ self' = IF crash THEN self ELSE r.self
    /\ last' = [op |-> "put", ret |-> IF crash THEN SIGSEGV ELSE r.ret,
                out |-> [duplicate |-> key \in StoredKeys(self),
                         valid |-> Len(key) > 0
                             /\ p.type \in 0..(KAS_NUM_TYPES - 1),
                         fail |-> fail]]
    /\ puts' = IF phase # "OpenWrite" \/ crash THEN puts
               ELSE IF r.ret = OK
               THEN [puts EXCEPT !.items = puts.items \cup
                        {[key |-> key, type |-> p.type,
                          array_len |-> p.array_len, array |-> p.array]}]
               ELSE IF r.ret = KAS_ERR_DUPLICATE_KEY
               THEN [puts EXCEPT !.dupkey = key]
               ELSE puts
    /\ UNCHANGED <<disk, phase, golden>>

PutReturned(key, p, fail, zeroed, r) ==
    PutDone(key, p, fail, r,
            TableShort(self) /\ ~zeroed
                /\ r.ret \in {OK, KAS_ERR_DUPLICATE_KEY})

Put(key, p, fail, fill, zeroed) ==
    /\ Alive
    /\ self.num_items < MaxItems
    /\ PutReturned(key, p, fail, zeroed,
                   kastore_put(IF TableShort(self) THEN Grown(self) ELSE self,
                               key, p.array, p.array_len, p.type, fail, fill))

Get(key, malloc_fails, fill) ==
    /\ Alive
    /\ IF TableShort(self) /\ ~malloc_fails
       THEN last' = [op |-> "get", ret |-> SIGSEGV, out |-> <<>>]
       ELSE \E found \in bsearch(self, NewItem(key, <<>>, 0, 0), fill) :
               LET r == kastore_get(self, found, malloc_fails)
               IN  last' = [op |-> "get", ret |-> r.ret, out |-> r.out]
    /\ UNCHANGED <<self, disk, phase, puts, golden>>

\* The state after kastore_close returned r.
Closed(r) ==
    /\ self' = r.self
    /\ disk' = r.disk
    /\ last' = [op |-> "close", ret |-> r.ret,
                out |-> [zeroed |-> self = ZeroStore,
                         buffer |-> self.read_buffer.at,
                         release |-> r.release, fclose |-> r.fclose,
                         flushed |-> r.flushed]]
    /\ phase' = "Closed"
    /\ puts' = NoPuts
    /\ golden' = IF r.flushed
                 THEN [valid |-> TRUE, items |-> puts.items,
                       dupkey |-> puts.dupkey]
                 ELSE IF r.disk = disk THEN golden ELSE Unknown

Close(sorted, fail) ==
    /\ Alive
    /\ Closed(kastore_close(self, disk, sorted, fail))

\* The calls of a caller that keeps to the life cycle: open on a closed
\* store, put on a store open for writing, get on a store open for reading,
\* close at any time.
OpenClosed ==
    /\ phase = "Closed"
    /\ \E c \in OpenCalls : Open(c.mode, c.flags, c.fail)
PutOpenWrite ==
    /\ phase = "OpenWrite"
    /\ \E c \in PutCalls : Put(c.key, c.p, c.fail, 0, TRUE)
GetOpenRead ==
    /\ phase = "OpenRead"
    /\ \E c \in GetCalls : Get(c.key, c.malloc_fails, c.fill)
\* The orders the flush of kastore_close may sort the items in; a close
\* that does not flush does not sort.
SortOrders ==
    IF self.mode = KAS_WRITE /\ self.file # "NULL" THEN qsort(self)
    ELSE {Live(self)}
CloseAny == \E sorted \in SortOrders, fail \in CloseFails : Close(sorted, fail)

Next == OpenClosed \/ PutOpenWrite \/ GetOpenRead \/ CloseAny

Spec == Init /\ [][Next]_vars

\* Any call at any time, with no call failing but for what the caller
\* passes in, from a disk that holds no file.
InitAny ==
    /\ self = ZeroStore
    /\ disk = NoFile
    /\ last = [op |-> "init", ret |-> OK, out |-> <<>>]
    /\ phase = "Closed"
    /\ puts = NoPuts
    /\ golden = Unknown
OpenAny == \E mode \in Modes : Open(mode, 0, "none")
PutAny ==
    \E c \in PutCalls, zeroed \in BOOLEAN :
        c.fail = "none" /\ Put(c.key, c.p, "none", 0, zeroed)
GetAny == \E key \in GetKeys : Get(key, FALSE, 0)
CloseNoFail == \E sorted \in SortOrders : Close(sorted, "none")

NextAny == OpenAny \/ PutAny \/ GetAny \/ CloseNoFail

SpecAny == InitAny /\ [][NextAny]_vars

(* ------------------------------------------------------------------ *)
(* Properties                                                          *)
(* ------------------------------------------------------------------ *)
\* The order of section 4.2 of the specification on byte sequences:
\* lexicographic on the common prefix, the shorter first on a tie.
KeyLess(a, b) ==
    \/ \E i \in 1..Len(a) :
          /\ i <= Len(b)
          /\ a[i] < b[i]
          /\ \A j \in 1..(i - 1) : a[j] = b[j]
    \/ /\ Len(a) < Len(b)
       /\ \A j \in 1..Len(a) : a[j] = b[j]

\* The items of the store are in strictly ascending key order.
StrictlyAscending(s) ==
    \A i, j \in 1..Len(Live(s)) :
        i < j => KeyLess(ItemKey(s, s.items[i]), ItemKey(s, s.items[j]))

\* What a get of key returns on store s, for every element bsearch may
\* find, matches the put recorded in entries: the type, the length and the
\* bytes of the put under that key, KAS_ERR_KEY_NOT_FOUND where there is
\* none.
LookupMatches(s, entries, key) ==
    \A fill \in Fills :
        \A found \in bsearch(s, NewItem(key, <<>>, 0, 0), fill) :
            LET r == kastore_get(s, found, FALSE)
                stored == {e \in entries : e.key = key}
            IN  IF stored = {} THEN r.ret = KAS_ERR_KEY_NOT_FOUND
                ELSE \A e \in stored :
                        /\ r.ret = OK
                        /\ r.out.type = e.type
                        /\ r.out.array_len = U64(e.array_len)
                        /\ PtrBytes(s, r.out.array, Len(e.array), fill) = e.array

\* C1: after the puts that succeeded on a write-mode store, a close that
\* flushed them and a read-mode open of that file, the open succeeds unless
\* a library call fails, and get returns for every stored key the type, the
\* array length and the array bytes put under it, and
\* KAS_ERR_KEY_NOT_FOUND for every other key.
RoundTripLookup ==
    /\ (golden.valid /\ phase = "Closed") =>
           \A flags \in FlagValues :
               kastore_open(disk, "r", flags, "none").ret = OK
    /\ (golden.valid /\ phase = "OpenRead") =>
           \A key \in GetKeys : LookupMatches(self, golden.items, key)

\* C1 witness: a get on a reopened file of two items returned the u32 array.
RoundTripWitness ==
    /\ golden.valid /\ phase = "OpenRead"
    /\ Cardinality(golden.items) = 2
    /\ last.op = "get" /\ last.ret = OK
    /\ last.out.type = 2

\* The put left the number of items and the items as they were.
StoreUnchanged == self'.num_items = self.num_items /\ Live(self') = Live(self)

\* C2 as stated: every put whose key equals the key of an item already in
\* the store returns KAS_ERR_DUPLICATE_KEY and leaves num_items and the
\* items unchanged.
DuplicateAlwaysRejected ==
    [][(last'.op = "put" /\ last'.out.duplicate) =>
          (last'.ret = KAS_ERR_DUPLICATE_KEY /\ StoreUnchanged)]_vars

\* C2 as amended: a put with a non-empty key and a valid type whose key
\* equals the key of an item already in the store returns
\* KAS_ERR_DUPLICATE_KEY, or KAS_ERR_NO_MEMORY when an allocation fails;
\* when it returns KAS_ERR_DUPLICATE_KEY, num_items and the items are
\* unchanged; and after a flush and a reopen, get of that key returns what
\* the first put stored under it.
DuplicateRejected ==
    /\ [][(last'.op = "put" /\ last'.out.duplicate /\ last'.out.valid) =>
             /\ last'.ret = (IF last'.out.fail = "none"
                             THEN KAS_ERR_DUPLICATE_KEY
                             ELSE KAS_ERR_NO_MEMORY)
             /\ last'.ret = KAS_ERR_DUPLICATE_KEY => StoreUnchanged]_vars
    /\ []((golden.valid /\ golden.dupkey # <<>> /\ phase = "OpenRead") =>
             LookupMatches(self, golden.items, golden.dupkey))

\* C2 witness: the file flushed after a rejected duplicate was reopened and
\* get returned an array.
DuplicateWitness ==
    /\ golden.valid /\ golden.dupkey # <<>> /\ phase = "OpenRead"
    /\ last.op = "get" /\ last.ret = OK

\* C3: put returns 0 and changes the items only on a store open for
\* writing, and get returns 0 only on a store open for reading.
StateMachineEnforced ==
    [][/\ (last'.op = "put" /\ phase # "OpenWrite") =>
              (last'.ret # OK /\ self'.items = self.items)
       /\ (last'.op = "get" /\ phase # "OpenRead") => last'.ret # OK]_vars

\* C4 as stated: after every read-mode open that succeeds, the items are
\* in strictly ascending key order.
ReaderRequiresSorted == phase = "OpenRead" => StrictlyAscending(self)

\* C4 as amended: the reader checks types, bounds and packing, not the
\* order of the keys; it is the files that kastore_close flushed whose
\* items come back, from every read-mode open that succeeds, in strictly
\* ascending key order.
WrittenFilesReadSorted ==
    (golden.valid /\ phase = "OpenRead") => StrictlyAscending(self)

\* C4 witness: a flushed file of two items was opened for reading.
WrittenFilesWitness ==
    /\ golden.valid /\ phase = "OpenRead"
    /\ self.num_items = 2 /\ last.op = "open"

\* x is the smallest multiple of 8 that is >= y.
RoundedUp(x, y) == x % 8 = 0 /\ x >= y /\ x - y < 8

\* The layout of section 4.4 of the specification, on the descriptors of a
\* file with all values as naturals.
Layout(f) ==
    LET N == Len(f.descs)
        ks(j) == Nat64(f.descs[j].key_start)
        kl(j) == Nat64(f.descs[j].key_len)
        astart(j) == Nat64(f.descs[j].array_start)
        ae(j) == astart(j) + Nat64(f.descs[j].array_len) * type_size(f.descs[j].type)
    IN  /\ Len(f.hdr) = 1
        /\ f.hdr[1].num_items = N
        /\ \A j \in 1..N :
              /\ Fits(f.descs[j].key_start) /\ Fits(f.descs[j].key_len)
              /\ Fits(f.descs[j].array_start) /\ Fits(f.descs[j].array_len)
              /\ ks(j) = IF j = 1
                         THEN KAS_HEADER_SIZE + N * KAS_ITEM_DESCRIPTOR_SIZE
                         ELSE ks(j - 1) + kl(j - 1)
              /\ RoundedUp(astart(j), IF j = 1 THEN ks(N) + kl(N) ELSE ae(j - 1))
        /\ f.hdr[1].file_size = U64(FileLen(f))
        /\ FileLen(f) = IF N = 0 THEN KAS_HEADER_SIZE ELSE ae(N)

\* C5: the file a write-mode close flushed has its first key at
\* HEADER_SIZE + N * DESCRIPTOR_SIZE, every later key where the one before
\* ends, every array at the smallest multiple of 8 not below the end of
\* what precedes it, and in its header the number of bytes written.
WrittenLayout == golden.valid => Layout(disk.file)

\* C5 witness: a close flushed two items, the second array after padding.
WrittenLayoutWitness ==
    /\ last.op = "close" /\ last.out.flushed
    /\ Len(disk.file.descs) = 2
    /\ Nat64(disk.file.descs[2].array_start)
           # Nat64(disk.file.descs[1].array_start)
               + Nat64(disk.file.descs[1].array_len)
                   * type_size(disk.file.descs[1].type)

\* key_start + key_len <= file_size and
\* array_start + array_len * width <= file_size without wrap-around.
ExactBounds(d, file_size) ==
    LET k == AddCarry(d.key_start, d.key_len)
        m == MulCarry(d.array_len, type_size(d.type))
        a == AddCarry(d.array_start, m.lo)
    IN  /\ k.carry = 0 /\ Le64(k.lo, file_size)
        /\ m.carry = 0 /\ a.carry = 0 /\ Le64(a.lo, file_size)

\* C6: a read-mode open succeeds only on a file all of whose descriptors
\* are within file_size in exact arithmetic, and rejects a file with a
\* valid header, known types and a descriptor that is not, with
\* KAS_ERR_BAD_FILE_FORMAT.
BoundsCheckedExactly ==
    /\ phase = "OpenRead" =>
           \A j \in 1..self.num_items :
               ExactBounds(Descriptor(self, j), self.file_size)
    /\ LET f == disk.file
       IN  (/\ last.op = "open" /\ self.mode = KAS_READ
            /\ last.out.fail = "none" /\ disk.exists
            /\ Len(f.hdr) = 1 /\ f.hdr[1].num_items = Len(f.descs)
            /\ f.hdr[1].magic
            /\ f.hdr[1].version_major = KAS_FILE_VERSION_MAJOR
            /\ \A j \in 1..Len(f.descs) : TypeOk(f.descs[j])
            /\ \E j \in 1..Len(f.descs) :
                  ~ExactBounds(f.descs[j], f.hdr[1].file_size))
           => last.ret = KAS_ERR_BAD_FILE_FORMAT

\* C7: kastore_close leaves every field of the store zero whatever it
\* returns; on a store that is all zero it returns 0, writes nothing,
\* releases no buffer and closes no file.
CloseZeroes ==
    [][last'.op = "close" =>
          /\ self' = ZeroStore
          /\ self = ZeroStore =>
                /\ last'.ret = OK
                /\ disk' = disk
                /\ last'.out.release = "none"
                /\ ~last'.out.fclose]_vars

\* C7 witness: a close whose flush failed returned KAS_ERR_IO and left the
\* store all zero.
CloseZeroesWitness ==
    last.op = "close" /\ last.ret = KAS_ERR_IO /\ self = ZeroStore

\* C8: a read-mode open that obtains a buffer maps the file when the
\* KAS_NO_MMAP bit of flags is clear and reads it into the heap when the
\* bit is set.
MmapUnlessNoMmap ==
    (last.op = "open" /\ self.mode = KAS_READ /\ self.read_buffer.at # "null") =>
        (self.read_buffer.at = "mmap" <=> BitAnd(self.flags, KAS_NO_MMAP) = 0)

\* C9: kastore_close calls munmap exactly on a buffer that was mapped and
\* free exactly on a buffer that was allocated.
ReleasedAsAcquired ==
    last.op = "close" =>
        /\ last.out.release = "munmap" <=> last.out.buffer = "mmap"
        /\ last.out.release = "free" <=> last.out.buffer = "heap"

\* C10: a put that returns an error leaves num_items and the items as they
\* were.
FailedPutChangesNothing ==
    [][(last'.op = "put" /\ last'.ret # OK) => StoreUnchanged]_vars
====
